---------------------------- MODULE Spec2Model ----------------------------
(***************************************************************************)
(* A model of the RepFlow descriptor block (DescrptBlockRepflows) and of   *)
(* the environment matrix builder it drives:                               *)
(*   src/deepmd/pt/model/descriptor/repflows.py                            *)
(*   src/deepmd/pt/model/descriptor/env_mat.py                             *)
(*                                                                         *)
(* Conventions of the model.                                               *)
(*  - One frame (nframes = 1).  Atom and slot indices are 0-based as in    *)
(*    the source, so that the sentinel -1 and the replacement index 0 keep *)
(*    their meaning; a tensor [nloc, nnei] is a function                   *)
(*    [0..nloc-1 -> [0..nnei-1 -> value]].                                 *)
(*  - Positions have one spatial component (atoms on a line) with integer  *)
(*    values, so every norm is an integer; the environment feature has the *)
(*    radial component r and one angular component x.                      *)
(*  - Floating point values are exact fractions <<n, d>> with d >= 0 in    *)
(*    lowest terms: <<1,0>> and <<-1,0>> are +inf and -inf, <<0,0>> is     *)
(*    NaN, which is what the IEEE operations + - * / produce on them.      *)
(*  - The message-passing layer, the statistics accumulator, the type-pair *)
(*    exclusion mask, the graph indexer and the smoothing function are     *)
(*    collaborators outside src/; they are modelled by their contract.     *)
(***************************************************************************)
EXTENDS Integers, Sequences, FiniteSets, TLC

VARIABLES
    border_built, \* whether the custom op library provides border_op
    blk,        \* the descriptor block's configuration fields, or NoBlock
    ctor_args,  \* the arguments of the last constructor call, None if none
    ctor_err,   \* the error raised by the last constructor call, "" if none
    mean,       \* buffer "mean"   [ntypes, nnei, comps]
    stddev,     \* buffer "stddev" [ntypes, nnei, comps]
    stats,      \* self.stats: None or the accumulator's statistics
    sampling,   \* the last compute_input_stats call on the block, None if none
    got,        \* the outcome of the last get_stats call on the block, None if none
    pc,         \* position of the running forward call, "idle" if none
    inp,        \* the caller's arguments of the running forward call
    caller,     \* the current contents of the tensors the caller passed
    loc,        \* the local variables of the running forward call
    calls,      \* what each message-passing layer invoked so far was handed
    trace,      \* the collaborators invoked so far by the running call, in order
    result,     \* the tuple forward returned
    err,        \* the error forward raised, "" if none
    env_in,     \* the arguments of the last direct prod_env_mat call
    env_out     \* what that call returned

blockVars == <<blk, ctor_args, ctor_err, mean, stddev, stats, sampling, got>>
fwdVars == <<pc, inp, caller, loc, calls, trace, result, err>>
envVars == <<env_in, env_out>>
vars == <<border_built, blk, ctor_args, ctor_err, mean, stddev, stats, sampling, got,
          pc, inp, caller, loc, calls, trace, result, err, env_in, env_out>>

\* Python's None, and the absence of a block; both the empty tuple, which TLC
\* compares with any function or record
None == <<>>
NoBlock == <<>>

-----------------------------------------------------------------------------
(* Exact arithmetic on fractions, with IEEE inf and NaN as <<+-1,0>>, <<0,0>> *)

Abs(n) == IF n < 0 THEN -n ELSE n

Sign(n) == IF n < 0 THEN -1 ELSE IF n > 0 THEN 1 ELSE 0

Min(a, b) == IF a <= b THEN a ELSE b

RECURSIVE GCD(_, _)
GCD(a, b) == IF b = 0 THEN a ELSE GCD(b, a % b)

\* the fraction n/d (d >= 0) in lowest terms
Frac(n, d) ==
    IF d = 0 THEN <<Sign(n), 0>>
    ELSE LET g == GCD(Abs(n), d) IN <<Sign(n) * (Abs(n) \div g), d \div g>>

\* n/d for any sign of d
FracS(n, d) == IF d < 0 THEN Frac(-n, -d) ELSE Frac(n, d)

RInt(n) == <<n, 1>>
RZero == <<0, 1>>
ROne == <<1, 1>>
RAdd(a, b) == Frac(a[1] * b[2] + b[1] * a[2], a[2] * b[2])
RSub(a, b) == Frac(a[1] * b[2] - b[1] * a[2], a[2] * b[2])
RMul(a, b) == Frac(a[1] * b[1], a[2] * b[2])
RDiv(a, b) == FracS(a[1] * b[2], a[2] * b[1])
RIsZero(a) == a[1] = 0 /\ a[2] # 0
RIsFinite(a) == a[2] # 0

-----------------------------------------------------------------------------
(* Smoothing function (deepmd.pt.utils.preprocess.compute_smooth_weight,    *)
(* outside src/): 1 up to rmin, 0 from rmax on, and in between the quintic  *)
(* blend 1 + u^3 (-6 u^2 + 15 u - 10) of u = (r - rmin) / (rmax - rmin).    *)
compute_smooth_weight(distance, rmin, rmax) ==
    IF distance <= rmin THEN ROne
    ELSE IF distance >= rmax THEN RZero
    ELSE LET p == distance - rmin
             q == rmax - rmin
         IN Frac(q*q*q*q*q - 6*p*p*p*p*p + 15*p*p*p*p*q - 10*p*p*p*q*q,
                 q*q*q*q*q)

-----------------------------------------------------------------------------
(* env_mat.py                                                               *)

\* weight * mask.unsqueeze(-1): the weight of a padded slot is forced to 0
NoWeightMask(weight, mask) == weight

ApplyWeightMask(weight, mask) == RMul(weight, IF mask THEN ROne ELSE RZero)

\* diff = coord_r - coord_l: the neighbor's position relative to the center
AbsolutePosition(coord_r, coord_l) == coord_r

RelativeTo(coord_r, coord_l) == coord_r - coord_l

\* [t0, t1] * weight: every component is scaled by the smoothing weight
Unweighted(t, weight) == t

Weighted(t, weight) == RMul(t, weight)

\* line 49: the virtual atom appended for the sentinel index nall
PadAtom(coord, rcut) == coord[Cardinality(DOMAIN coord) - 1] + rcut

\* _make_env_mat for one frame: nlist [nloc][nnei], coord [nall]
make_env_mat(nlist, coord, rcut, ruct_smth, protection) ==
    LET natoms == Cardinality(DOMAIN nlist)
        nall == Cardinality(DOMAIN coord)
        mask == [i \in DOMAIN nlist |-> [s \in DOMAIN nlist[i] |-> nlist[i][s] >= 0]]
        nl == [i \in DOMAIN nlist |-> [s \in DOMAIN nlist[i] |->
                 IF mask[i][s] THEN nlist[i][s] ELSE nall]]
        coord_pad == [j \in 0..nall |->
                        IF j < nall THEN coord[j] ELSE PadAtom(coord, rcut)]
        diff == [i \in DOMAIN nlist |-> [s \in DOMAIN nlist[i] |->
                   RelativeTo(coord_pad[nl[i][s]], coord[i])]]
        length == [i \in DOMAIN nlist |-> [s \in DOMAIN nlist[i] |->
                     Abs(diff[i][s]) + (IF mask[i][s] THEN 0 ELSE 1)]]
        t0 == [i \in DOMAIN nlist |-> [s \in DOMAIN nlist[i] |->
                 RDiv(ROne, RInt(length[i][s] + protection))]]
        t1 == [i \in DOMAIN nlist |-> [s \in DOMAIN nlist[i] |->
                 RDiv(RInt(diff[i][s]),
                      RInt((length[i][s] + protection) * (length[i][s] + protection)))]]
        weight == [i \in DOMAIN nlist |-> [s \in DOMAIN nlist[i] |->
                     ApplyWeightMask(
                         compute_smooth_weight(length[i][s], ruct_smth, rcut),
                         mask[i][s])]]
    IN [env_mat |-> [i \in DOMAIN nlist |-> [s \in DOMAIN nlist[i] |->
                       [r |-> Weighted(t0[i][s], weight[i][s]),
                        x |-> Weighted(t1[i][s], weight[i][s])]]],
        diff |-> [i \in DOMAIN nlist |-> [s \in DOMAIN nlist[i] |->
                    IF mask[i][s] THEN diff[i][s] ELSE 0]],
        weight |-> weight]

\* (_env_mat_se_a - t_avg) / t_std for one entry
Normalize(raw, avg, std) ==
    [r |-> RDiv(RSub(raw.r, avg.r), std.r), x |-> RDiv(RSub(raw.x, avg.x), std.x)]

\* prod_env_mat: the environment matrix normalized by the statistics of the
\* center atom's type; mean_, stddev_ are [type][slot] over the slots of nlist
prod_env_mat(extended_coord, nlist, atype, mean_, stddev_, rcut, rcut_smth, protection) ==
    LET e == make_env_mat(nlist, extended_coord, rcut, rcut_smth, protection)
    IN [env_mat_se_a |-> [i \in DOMAIN nlist |-> [s \in DOMAIN nlist[i] |->
                            Normalize(e.env_mat[i][s], mean_[atype[i]][s],
                                      stddev_[atype[i]][s])]],
        diff |-> e.diff,
        switch |-> e.weight]

\* a direct call prod_env_mat(**a); the caller keeps what it returns
ProdEnvMat(a) ==
    /\ env_in' = a
    /\ env_out' = prod_env_mat(a.extended_coord, a.nlist, a.atype, a.mean, a.stddev,
                               a.rcut, a.rcut_smth, a.protection)
    /\ UNCHANGED <<border_built, blockVars, fwdVars>>

-----------------------------------------------------------------------------
(* DescrptBlockRepflows.__init__                                            *)

NTypes == 2

Types == 0..(NTypes - 1)

\* use_dynamic_sel requires smooth_edge_update (lines 342-345)
DynSelUnchecked(a) == FALSE

DynSelWithoutSmooth(a) == a.use_dynamic_sel /\ ~a.smooth_edge_update

\* sel_reduce_factor must be > 0 (lines 346-349)
SelReduceOnlyNegative(a) == a.sel_reduce_factor < 0

SelReduceNonPositive(a) == a.sel_reduce_factor <= 0

\* mean = zeros(ntypes, nnei, comps)
InitMean(a) == [t \in Types |-> [s \in 0..(a.e_sel - 1) |-> [r |-> RZero, x |-> RZero]]]

\* stddev = ones(ntypes, nnei, comps), times fix_stat_std when that is non-zero
InitStddevScaled(a) ==
    [t \in Types |-> [s \in 0..(a.e_sel - 1) |->
        [r |-> RMul(ROne, a.fix_stat_std), x |-> RMul(ROne, a.fix_stat_std)]]]

InitStddev(a) ==
    LET v == IF ~RIsZero(a.fix_stat_std) THEN RMul(ROne, a.fix_stat_std) ELSE ROne
    IN [t \in Types |-> [s \in 0..(a.e_sel - 1) |-> [r |-> v, x |-> v]]]

\* the fields __init__ stores
BlockOf(a) ==
    [e_rcut |-> a.e_rcut, e_rcut_smth |-> a.e_rcut_smth, e_sel |-> a.e_sel,
     a_rcut |-> a.a_rcut, a_rcut_smth |-> a.a_rcut_smth, a_sel |-> a.a_sel,
     nnei |-> a.e_sel, nlayers |-> a.nlayers,
     set_davg_zero |-> a.set_davg_zero, fix_stat_std |-> a.fix_stat_std,
     set_stddev_constant |-> ~RIsZero(a.fix_stat_std),
     use_loc_mapping |-> a.use_loc_mapping,
     smooth_edge_update |-> a.smooth_edge_update,
     use_dynamic_sel |-> a.use_dynamic_sel,
     sel_reduce_factor |-> a.sel_reduce_factor,
     exclude_types |-> a.exclude_types, env_protection |-> a.env_protection,
     update_coord |-> a.update_coord]

\* The constructor call DescrptBlockRepflows(**a): either raises, leaving no
\* block, or yields a block with its buffers initialised.
Construct(a) ==
    /\ pc = "idle"
    /\ UNCHANGED <<border_built, fwdVars, envVars>>
    /\ ctor_args' = a
    /\ IF DynSelWithoutSmooth(a)
       THEN /\ blk' = NoBlock
            /\ ctor_err' = "NotImplementedError"
            /\ mean' = None /\ stddev' = None /\ stats' = None
       ELSE IF SelReduceNonPositive(a)
       THEN /\ blk' = NoBlock
            /\ ctor_err' = "ValueError"
            /\ mean' = None /\ stddev' = None /\ stats' = None
       ELSE /\ blk' = BlockOf(a)
            /\ ctor_err' = ""
            /\ mean' = InitMean(a)
            /\ stddev' = InitStddev(a)
            /\ stats' = None
    /\ sampling' = None
    /\ got' = None

-----------------------------------------------------------------------------
(* Statistics: compute_input_stats and item assignment                      *)

\* line 1108: nothing is computed when both statistics are fixed
StatsNeverFrozen(b) == FALSE

StatsFrozen(b) == b.set_stddev_constant /\ b.set_davg_zero

\* compute_input_stats (lines 1088-1132); acc is what the accumulator
\* EnvMatStatSe (outside src/) yields from the samples or the stat file: its
\* stats and the mean and stddev arrays derived from them
\* merged is a lazy sampler or a list of samples
MergedKinds == {"callable", "list"}

\* path is absent, or path / hash is missing, or it is an existing directory
PathKinds == {"none", "missing", "dir"}

\* line 1114: path is None or not path.is_dir()
AlwaysSample(path) == TRUE

NeedsSampling(path) == path = "none" \/ path # "dir"

\* lines 1109-1123: what one call does with merged and path: how often it
\* invokes the sampler, what it hands to load_or_compute_stats, and whether it
\* gets that far
StatsCall(b, merged, path) ==
    IF StatsFrozen(b)
    THEN [merged |-> merged, path |-> path, sampler_calls |-> 0,
          sampled |-> "none", loaded |-> FALSE]
    ELSE [merged |-> merged, path |-> path,
          sampler_calls |-> IF NeedsSampling(path) /\ merged = "callable" THEN 1 ELSE 0,
          sampled |-> IF NeedsSampling(path)
                      THEN IF merged = "callable" THEN "returned" ELSE "merged"
                      ELSE "empty",
          loaded |-> TRUE]

\* line 1125: if not self.set_davg_zero
MeanAlwaysFromData(b) == TRUE

MeanFromData(b) == ~b.set_davg_zero

\* line 1129: if not self.set_stddev_constant
StddevFromData(b) == ~b.set_stddev_constant

ComputeInputStats(acc) ==
    /\ pc = "idle"
    /\ blk # NoBlock
    /\ IF StatsFrozen(blk)
       THEN UNCHANGED <<mean, stddev, stats>>
       ELSE /\ stats' = acc.stats
            /\ mean' = IF MeanFromData(blk) THEN acc.mean ELSE mean
            /\ stddev' = IF StddevFromData(blk) THEN acc.stddev ELSE stddev
    /\ \E merged \in MergedKinds : \E path \in PathKinds :
          sampling' = StatsCall(blk, merged, path)
    /\ UNCHANGED <<border_built, blk, ctor_args, ctor_err, got, fwdVars, envVars>>

\* line 1136: self.stats is None
StatsNeverMissing(st) == FALSE

StatsMissing(st) == st = None

\* what get_stats has seen of compute_input_stats on this block
SeenCalls ==
    IF sampling = None THEN "fresh" ELSE IF sampling.loaded THEN "stored" ELSE "early"

\* get_stats (lines 1134-1140): raises RuntimeError or returns self.stats
GetStats ==
    /\ pc = "idle"
    /\ blk # NoBlock
    /\ got' = IF StatsMissing(stats)
              THEN [raised |-> TRUE, ret |-> None, seen |-> SeenCalls]
              ELSE [raised |-> FALSE, ret |-> stats, seen |-> SeenCalls]
    /\ UNCHANGED <<border_built, blk, ctor_args, ctor_err, mean, stddev, stats, sampling,
                   fwdVars, envVars>>

AvgKeys == {"avg", "data_avg", "davg"}

StdKeys == {"std", "data_std", "dstd"}

\* __setitem__ (lines 487-493): block[key] = value; any other key raises
\* KeyError and changes nothing
SetItem(key, value) ==
    /\ pc = "idle"
    /\ blk # NoBlock
    /\ mean' = IF key \in AvgKeys THEN value ELSE mean
    /\ stddev' = IF key \in StdKeys THEN value ELSE stddev
    /\ UNCHANGED <<border_built, blk, ctor_args, ctor_err, stats, sampling, got,
                   fwdVars, envVars>>

-----------------------------------------------------------------------------
(* DescrptBlockRepflows.forward: helpers                                    *)

NLoc(nlist) == Cardinality(DOMAIN nlist)

\* elementwise map over a [nloc][nnei] tensor
Map2(t, F(_, _, _)) == [i \in DOMAIN t |-> [s \in DOMAIN t[i] |-> F(i, s, t[i][s])]]

\* the positions <<i, s>> of a [nloc][nnei] tensor in row-major order
RowMajor(t) ==
    LET n == NLoc(t)
        k == IF n = 0 THEN 0 ELSE Cardinality(DOMAIN t[0])
    IN [q \in 1..(n * k) |-> <<(q - 1) \div k, (q - 1) % k>>]

\* the positions <<i, s, u>> of a [nloc][a][a] tensor in row-major order
RowMajor3(t) ==
    LET n == NLoc(t)
        k == IF n = 0 THEN 0 ELSE Cardinality(DOMAIN t[0])
    IN [q \in 1..(n * k * k) |->
          <<(q - 1) \div (k * k), ((q - 1) \div k) % k, (q - 1) % k>>]

\* the positions of the true entries of a mask, in row-major order
AllSlots(mask) == RowMajor(mask)

TrueSlots(mask) == SelectSeq(RowMajor(mask), LAMBDA p : mask[p[1]][p[2]])

TruePairs(mask3) == SelectSeq(RowMajor3(mask3), LAMBDA p : mask3[p[1]][p[2]][p[3]])

\* t[mask]: boolean-mask indexing flattens the selected entries in row-major order
CompactDense(t, mask) ==
    LET sl == RowMajor(mask) IN [q \in 1..Len(sl) |-> t[sl[q][1]][sl[q][2]]]

Compact(t, mask) ==
    LET sl == TrueSlots(mask) IN [q \in 1..Len(sl) |-> t[sl[q][1]][sl[q][2]]]

Compact3(t, mask3) ==
    LET sl == TruePairs(mask3) IN [q \in 1..Len(sl) |-> t[sl[q][1]][sl[q][2]][sl[q][3]]]

\* PairExcludeMask(ntypes, exclude_types)(nlist, atype_ext) (outside src/):
\* 0 for a slot whose (center type, neighbor type) pair is excluded, in either
\* order; 1 otherwise
emask(exclude_types, nlist, extended_atype) ==
    Map2(nlist, LAMBDA i, s, j :
        IF j >= 0 /\ (<<extended_atype[i], extended_atype[j]>> \in exclude_types
                      \/ <<extended_atype[j], extended_atype[i]>> \in exclude_types)
        THEN 0 ELSE 1)

\* nlist = torch.where(exclude_mask != 0, nlist, -1)
KeepExcluded(nlist, exclude_mask) == nlist

ApplyExclude(nlist, exclude_mask) ==
    Map2(nlist, LAMBDA i, s, j : IF exclude_mask[i][s] # 0 THEN j ELSE -1)

\* sw.masked_fill(~mask, 0.0)
SkipMaskedFill(sw, mask) == sw

masked_fill(sw, mask) == Map2(sw, LAMBDA i, s, w : IF ~mask[i][s] THEN RZero ELSE w)

\* t[:, :, :a_sel]
Prefix(t, a_sel) ==
    [i \in DOMAIN t |-> [s \in {u \in DOMAIN t[i] : u < a_sel} |-> t[i][s]]]

\* mean[:, :a_sel]
StatPrefix(st, a_sel) ==
    [ty \in DOMAIN st |-> [s \in {u \in DOMAIN st[ty] : u < a_sel} |-> st[ty][s]]]

\* a_nlist: the first a_sel slots, those at or beyond a_rcut turned into -1
AngleNlistNoCutoff(nlist, diff, a_rcut, a_sel) == Prefix(nlist, a_sel)

AngleNlist(nlist, diff, a_rcut, a_sel) ==
    Map2(Prefix(nlist, a_sel), LAMBDA i, s, j :
        IF Abs(diff[i][s]) < a_rcut THEN j ELSE -1)

\* nlist[nlist == -1] = 0
ReplaceSentinel(nlist) == Map2(nlist, LAMBDA i, s, j : IF j = -1 THEN 0 ELSE j)

\* torch.gather(mapping, 1, nlist): extended indices to local indices
LocMap(nlist, mapping) == Map2(nlist, LAMBDA i, s, j : mapping[j])

\* get_graph_index (deepmd.pt.model.network.utils, outside src/): one row
\* (owner, neighbor) per true edge slot and one row (owner, edge of slot s,
\* edge of slot u) per true angle pair, both in row-major order
get_graph_index(nlist, nlist_mask, a_nlist_mask) ==
    LET es == TrueSlots(nlist_mask)
        pairmask == [i \in DOMAIN a_nlist_mask |-> [s \in DOMAIN a_nlist_mask[i] |->
                       [u \in DOMAIN a_nlist_mask[i] |->
                           a_nlist_mask[i][s] /\ a_nlist_mask[i][u]]]]
        as == TruePairs(pairmask)
        EdgeOf(i, s) == CHOOSE q \in 1..Len(es) : es[q] = <<i, s>>
    IN [edge_index |-> [q \in 1..Len(es) |-> <<es[q][1], nlist[es[q][1]][es[q][2]]>>],
        angle_index |-> [q \in 1..Len(as) |->
            <<as[q][1], EdgeOf(as[q][1], as[q][2]), EdgeOf(as[q][1], as[q][3])>>]]

\* a_nlist_mask[:, :, :, None] & a_nlist_mask[:, :, None, :]: the pair of
\* slots (s, u) of a center is valid when both slots are
PairMaskOffDiagonal(m) ==
    [i \in DOMAIN m |-> [s \in DOMAIN m[i] |-> [u \in DOMAIN m[i] |->
        m[i][s] /\ m[i][u] /\ s # u]]]

PairMask(m) ==
    [i \in DOMAIN m |-> [s \in DOMAIN m[i] |-> [u \in DOMAIN m[i] |->
        m[i][s] /\ m[i][u]]]]

\* the jit placeholder torch.zeros([1, 3]) of dense mode
DenseIndex == << <<0, 0, 0>> >>

\* the locals after lines 589-813: exclusion, the edge and angle environment
\* passes, sentinel replacement, local index mapping and dynamic selection
ForwardLocals(b, mean_, stddev_, in) ==
    LET parallel_mode == in.comm_dict # None
        nloc == NLoc(in.nlist)
        atype == [i \in 0..(nloc - 1) |-> in.extended_atype[i]]
        exclude_mask == emask(b.exclude_types, in.nlist, in.extended_atype)
        nlist1 == ApplyExclude(in.nlist, exclude_mask)
        E == prod_env_mat(in.extended_coord, nlist1, atype, mean_, stddev_,
                          b.e_rcut, b.e_rcut_smth, b.env_protection)
        nlist_mask == Map2(nlist1, LAMBDA i, s, j : j # -1)
        sw == masked_fill(E.switch, nlist_mask)
        a_nlist1 == AngleNlist(nlist1, E.diff, b.a_rcut, b.a_sel)
        A == prod_env_mat(in.extended_coord, a_nlist1, atype,
                          StatPrefix(mean_, b.a_sel), StatPrefix(stddev_, b.a_sel),
                          b.a_rcut, b.a_rcut_smth, b.env_protection)
        a_nlist_mask == Map2(a_nlist1, LAMBDA i, s, j : j # -1)
        a_sw == masked_fill(A.switch, a_nlist_mask)
        nlist2 == ReplaceSentinel(nlist1)
        a_nlist == ReplaceSentinel(a_nlist1)
        edge_input == Map2(E.env_mat_se_a, LAMBDA i, s, v : v.r)
        h2 == Map2(E.env_mat_se_a, LAMBDA i, s, v : v.x)
        nlist == IF ~parallel_mode /\ b.use_loc_mapping
                 THEN LocMap(nlist2, in.mapping) ELSE nlist2
        G == get_graph_index(nlist, nlist_mask, a_nlist_mask)
        pairmask == PairMask(a_nlist_mask)
        a_sw2 == [i \in DOMAIN a_sw |-> [s \in DOMAIN a_sw[i] |->
                    [u \in DOMAIN a_sw[i] |-> RMul(a_sw[i][s], a_sw[i][u])]]]
    IN [idx |-> 0,
        nlist |-> nlist,
        nlist_mask |-> nlist_mask,
        a_nlist |-> a_nlist,
        a_nlist_mask |-> IF b.use_dynamic_sel THEN pairmask ELSE a_nlist_mask,
        dmatrix |-> E.env_mat_se_a,
        diff |-> E.diff,
        a_diff |-> A.diff,
        edge_input |-> IF b.use_dynamic_sel THEN Compact(edge_input, nlist_mask)
                       ELSE edge_input,
        h2 |-> IF b.use_dynamic_sel THEN Compact(h2, nlist_mask) ELSE h2,
        sw |-> IF b.use_dynamic_sel THEN Compact(sw, nlist_mask) ELSE sw,
        a_sw |-> IF b.use_dynamic_sel THEN Compact3(a_sw2, pairmask) ELSE a_sw,
        edge_index |-> IF b.use_dynamic_sel THEN G.edge_index ELSE DenseIndex,
        angle_index |-> IF b.use_dynamic_sel THEN G.angle_index ELSE DenseIndex,
        extended_coord_new |-> in.extended_coord,
        increments |-> <<>>,
        env_nlist |-> nlist1,
        node_ebd |-> 0, edge_ebd |-> 0, angle_ebd |-> 0,
        node_ebd_ext |-> None,
        coord_update |-> None]

-----------------------------------------------------------------------------
(* DescrptBlockRepflows.forward: the layer loop                             *)

Append2(tr, a, b) == Append(Append(tr, a), b)

\* embeddings are abstract: <<origin, atom, version>>, the version counting the
\* layers that produced them
PaddedEbdFirst(ver, nloc, nall) ==
    [j \in 0..(nall - 1) |-> IF j < nloc THEN <<"loc", j, 0>> ELSE <<"zero", j, 0>>]

PaddedEbd(ver, nloc, nall) ==
    [j \in 0..(nall - 1) |-> IF j < nloc THEN <<"loc", j, ver>> ELSE <<"zero", j, ver>>]

\* the message of the stub's NotImplementedError (lines 86-90)
BorderOpError == "NotImplementedError: border_op is not available"

\* border_op as the stub of lines 73-92 or the built primitive: the stub
\* raises, the primitive fills the ghost rows from the peer partitions
border_op_silent(built, buf, nloc) == [raised |-> FALSE, ret |-> buf]

border_op(built, buf, nloc) ==
    IF ~built THEN [raised |-> TRUE, ret |-> None]
    ELSE [raised |-> FALSE,
          ret |-> [j \in DOMAIN buf |-> IF j < nloc THEN buf[j] ELSE <<"peer", j, buf[j][3]>>]]

\* lines 823-829: the extended node embedding of the non-parallel mode
GatherNodeExt ==
    /\ pc = "loop"
    /\ loc.idx < blk.nlayers
    /\ inp.comm_dict = None
    /\ loc' = [loc EXCEPT !.node_ebd_ext =
                 IF ~blk.use_loc_mapping
                 THEN [j \in DOMAIN inp.mapping |-> <<"loc", inp.mapping[j], loc.node_ebd>>]
                 ELSE [i \in DOMAIN inp.nlist |-> <<"loc", i, loc.node_ebd>>]]
    /\ pc' = "call"
    /\ UNCHANGED <<border_built, blockVars, envVars, inp, caller, calls, trace, result, err>>

\* lines 831-898: the border exchange of the parallel mode (without spin)
BorderExchange ==
    /\ pc = "loop"
    /\ loc.idx < blk.nlayers
    /\ inp.comm_dict # None
    /\ LET nloc == NLoc(inp.nlist)
           nall == Cardinality(DOMAIN inp.extended_coord)
           r == border_op(border_built, PaddedEbd(loc.node_ebd, nloc, nall), nloc)
       IN IF r.raised
          THEN /\ pc' = "error"
               /\ err' = BorderOpError
               /\ UNCHANGED <<loc, trace>>
          ELSE /\ pc' = "call"
               /\ loc' = [loc EXCEPT !.node_ebd_ext = r.ret]
               /\ trace' = Append(trace, <<"border_op", loc.idx>>)
               /\ err' = err
    /\ UNCHANGED <<border_built, blockVars, envVars, inp, caller, calls, result>>

\* what ll.forward is handed (lines 903-917)
LayerArgs(L) ==
    [idx |-> L.idx, node_ebd_ext |-> L.node_ebd_ext, edge_ebd |-> L.edge_ebd,
     h2 |-> L.h2, angle_ebd |-> L.angle_ebd, nlist |-> L.nlist,
     nlist_mask |-> L.nlist_mask, sw |-> L.sw, a_nlist |-> L.a_nlist,
     a_nlist_mask |-> L.a_nlist_mask, a_sw |-> L.a_sw,
     edge_index |-> L.edge_index, angle_index |-> L.angle_index, diff |-> L.diff,
     dmatrix |-> L.dmatrix, env_nlist |-> L.env_nlist,
     extended_coord_new |-> L.extended_coord_new]

\* lines 903-917: layer idx is invoked and returns new embeddings and an
\* optional coordinate increment cu
LayerCall(cu) ==
    /\ pc = "call"
    /\ calls' = Append(calls, LayerArgs(loc))
    /\ trace' = Append(trace, <<"layer", loc.idx>>)
    /\ loc' = [loc EXCEPT !.node_ebd = loc.node_ebd + 1, !.edge_ebd = loc.edge_ebd + 1,
                          !.angle_ebd = loc.angle_ebd + 1, !.coord_update = cu]
    /\ pc' = "update"
    /\ UNCHANGED <<border_built, blockVars, envVars, inp, caller, result, err>>

\* line 983: self.update_coord and coord_update is not None
UpdateWheneverReturned(b, cu) == cu # None

NeedsCoordUpdate(b, cu) == b.update_coord /\ cu # None

\* the caller's neighbor list while forward works on its own: torch.where
\* (line 605) allocates the working list, so the writes of lines 669 and 717
\* do not reach the list the caller gave
CallerNlistShared(given, working) == working

CallerNlist(given, working) == given

\* the caller's coordinates while forward advances its own: the running
\* buffer is a clone (line 810) and each update rebinds it to a new sum
\* (line 1004)
CallerCoordShared(given, running) == running

CallerCoord(given, running) == given

\* line 1002: torch.gather(coord_update, 1, mapping_coord_ext)
DeltaLocalOnly(coord_update, mapping_orig) ==
    [j \in DOMAIN mapping_orig |->
        IF j \in DOMAIN coord_update THEN coord_update[j] ELSE 0]

DeltaExt(coord_update, mapping_orig) ==
    [j \in DOMAIN mapping_orig |-> coord_update[mapping_orig[j]]]

\* lines 1017-1045 rebind dmatrix, diff, sw and h2 only: the masks, the neighbor
\* lists and the sparse indices keep the values they had before the loop
RerunRemasked(L, E) ==
    [L EXCEPT !.nlist_mask = Map2(E.switch, LAMBDA i, s, w : ~RIsZero(w))]

RerunTopology(L, E) == L

\* lines 1004-1045: the coordinates are advanced and the edge environment pass
\* is re-run on the current nlist; h2 and sw are refreshed
UpdatedLocals(b, mean_, stddev_, L, in) ==
    LET delta_ext == DeltaExt(L.coord_update, in.mapping)
        new == [j \in DOMAIN L.extended_coord_new |->
                  L.extended_coord_new[j] + delta_ext[j]]
        atype == [i \in DOMAIN L.nlist |-> in.extended_atype[i]]
        E == prod_env_mat(new, L.nlist, atype, mean_, stddev_,
                          b.e_rcut, b.e_rcut_smth, b.env_protection)
        sw == masked_fill(E.switch, L.nlist_mask)
        h2 == Map2(E.env_mat_se_a, LAMBDA i, s, v : v.x)
    IN [RerunTopology(L, E) EXCEPT !.extended_coord_new = new,
                 !.increments = Append(L.increments, L.coord_update),
                 !.dmatrix = E.env_mat_se_a,
                 !.diff = E.diff,
                 !.env_nlist = L.nlist,
                 !.sw = IF b.use_dynamic_sel THEN Compact(sw, L.nlist_mask) ELSE sw,
                 !.h2 = IF b.use_dynamic_sel THEN Compact(h2, L.nlist_mask) ELSE h2]

\* lines 983-1045: the coordinate update after layer idx, then the next layer
\* (coord_update is dead from here on: the next layer call rebinds it)
CoordUpdate ==
    /\ pc = "update"
    /\ IF NeedsCoordUpdate(blk, loc.coord_update)
       THEN IF inp.comm_dict = None
            THEN /\ loc' = [UpdatedLocals(blk, mean, stddev, loc, inp)
                               EXCEPT !.idx = loc.idx + 1, !.coord_update = None]
                 /\ trace' = Append2(trace, <<"coord_update", loc.idx>>,
                                     <<"prod_env_mat", loc.idx>>)
                 /\ pc' = "loop"
                 /\ err' = err
            ELSE /\ pc' = "error"
                 /\ err' = "NotImplementedError: update_coord in parallel_mode is not supported yet"
                 /\ UNCHANGED <<loc, trace>>
       ELSE /\ loc' = [loc EXCEPT !.idx = loc.idx + 1, !.coord_update = None]
            /\ pc' = "loop"
            /\ UNCHANGED <<trace, err>>
    /\ caller' = IF NeedsCoordUpdate(blk, loc.coord_update) /\ inp.comm_dict = None
                 THEN [caller EXCEPT !.extended_coord =
                          CallerCoord(caller.extended_coord,
                              UpdatedLocals(blk, mean, stddev, loc, inp).extended_coord_new)]
                 ELSE caller
    /\ UNCHANGED <<border_built, blockVars, envVars, inp, calls, result>>

\* lines 1060-1086: the frame is assembled from edge_ebd, h2, nlist_mask and sw
\* (RepFlowLayer._cal_hg, outside src/) and the outputs are returned
Assemble ==
    /\ pc = "loop"
    /\ loc.idx = blk.nlayers
    /\ result' = [node_ebd |-> loc.node_ebd, edge_ebd |-> loc.edge_ebd,
                  h2 |-> loc.h2, sw |-> loc.sw,
                  rot_mat |-> [edge_ebd |-> loc.edge_ebd, h2 |-> loc.h2, sw |-> loc.sw]]
    /\ trace' = Append(trace, <<"cal_hg", loc.idx>>)
    /\ pc' = "done"
    /\ UNCHANGED <<border_built, blockVars, envVars, inp, caller, loc, calls, err>>

\* lines 589-813: forward is entered with the arguments in
ForwardBegin(in) ==
    /\ pc = "idle"
    /\ blk # NoBlock
    /\ Cardinality(DOMAIN in.nlist[0]) = blk.nnei
    /\ inp' = in
    /\ caller' = IF in.comm_dict = None /\ in.mapping = None
                 THEN [nlist |-> in.nlist, extended_coord |-> in.extended_coord]
                 ELSE [nlist |-> CallerNlist(in.nlist,
                                     ReplaceSentinel(ApplyExclude(in.nlist,
                                         emask(blk.exclude_types, in.nlist,
                                               in.extended_atype)))),
                       extended_coord |-> CallerCoord(in.extended_coord, in.extended_coord)]
    /\ calls' = <<>>
    /\ result' = None
    /\ IF in.comm_dict = None /\ in.mapping = None
       THEN /\ pc' = "error"
            /\ err' = "AssertionError"
            /\ loc' = None
            /\ trace' = <<>>
       ELSE /\ pc' = "loop"
            /\ err' = ""
            /\ loc' = ForwardLocals(blk, mean, stddev, in)
            /\ trace' = <<<<"prod_env_mat", -1>>, <<"prod_env_mat", -1>>>>
    /\ UNCHANGED <<border_built, blockVars, envVars>>

\* the caller receives the outputs or the exception; the locals are gone
ForwardReturn ==
    /\ pc \in {"done", "error"}
    /\ pc' = "idle"
    /\ inp' = None /\ caller' = None /\ loc' = None /\ calls' = <<>> /\ trace' = <<>>
    /\ result' = None /\ err' = ""
    /\ UNCHANGED <<border_built, blockVars, envVars>>

-----------------------------------------------------------------------------
(* Bounds and the inputs drawn within them                                  *)

MaxLayers == 2

MaxCoord == 2

\* the periodic shift of a ghost image
Box == MaxCoord + 1

\* the constructor's arguments at the defaults of lines 264-307, with cutoffs
\* and selection counts (which have no default) at small values
CtorDefaults ==
    [e_rcut |-> 3, e_rcut_smth |-> 1, e_sel |-> 2,
     a_rcut |-> 2, a_rcut_smth |-> 1, a_sel |-> 2,
     nlayers |-> 1, set_davg_zero |-> TRUE, fix_stat_std |-> <<3, 10>>,
     smooth_edge_update |-> FALSE, use_dynamic_sel |-> FALSE,
     sel_reduce_factor |-> 10, use_loc_mapping |-> TRUE,
     exclude_types |-> {}, env_protection |-> 0, update_coord |-> FALSE]

\* constructor arguments of the forward specification: every combination of
\* the options the layer loop reads with one angle slot, every combination of
\* the options the angle pass reads with two, and the two invalid settings
CtorArgs ==
    {[CtorDefaults EXCEPT !.nlayers = n, !.update_coord = uc,
                          !.use_dynamic_sel = d, !.smooth_edge_update = d,
                          !.use_loc_mapping = lm, !.exclude_types = ex, !.a_sel = 1] :
        n \in 0..MaxLayers, uc \in BOOLEAN, d \in BOOLEAN,
        lm \in BOOLEAN, ex \in {{}, {<<0, 1>>}}}
    \cup
    {[CtorDefaults EXCEPT !.use_dynamic_sel = d, !.smooth_edge_update = d,
                          !.use_loc_mapping = lm, !.exclude_types = ex] :
        d \in BOOLEAN, lm \in BOOLEAN, ex \in {{}, {<<0, 1>>}}}
    \cup
    {[CtorDefaults EXCEPT !.use_dynamic_sel = TRUE],
     [CtorDefaults EXCEPT !.sel_reduce_factor = 0]}

\* constructor arguments of the constructor specification: every combination
\* of the checked options with valid and invalid cutoff orderings
CtorArgsWide ==
    {[CtorDefaults EXCEPT !.e_rcut = er, !.e_rcut_smth = es, !.a_rcut = ar,
                          !.a_rcut_smth = asm, !.e_sel = esel, !.a_sel = asel,
                          !.nlayers = n,
                          !.use_dynamic_sel = d, !.smooth_edge_update = sm,
                          !.sel_reduce_factor = rf] :
        er \in {3}, es \in {1, 4}, ar \in {2, 4}, asm \in {1, 3},
        esel \in {2}, asel \in {1, 3},
        n \in 0..MaxLayers, d \in BOOLEAN, sm \in BOOLEAN, rf \in {-1, 0, 10}}

Row(a, b) == [s \in 0..1 |-> IF s = 0 THEN a ELSE b]

\* non-parallel inputs: local atoms 0 and 1, one ghost image (atom 2) of local
\* atom m; the neighbor rows are padded at the end as a neighbor list builder
\* leaves them
SerialInputs ==
    {[nlist |-> [i \in 0..1 |-> IF i = 0 THEN r0 ELSE r1],
      extended_coord |-> [j \in 0..2 |-> IF j = 0 THEN 0 ELSE IF j = 1 THEN x1
                                         ELSE IF m = 0 THEN Box ELSE x1 - Box],
      extended_atype |-> [j \in 0..2 |-> IF j = 0 THEN 0 ELSE IF j = 1 THEN t1
                                         ELSE IF m = 0 THEN 0 ELSE t1],
      mapping |-> [j \in 0..2 |-> IF j = 2 THEN m ELSE j],
      comm_dict |-> None] :
        r0 \in {Row(-1, -1), Row(1, -1), Row(1, 2), Row(2, 1)},
        r1 \in {Row(0, 2)},
        x1 \in 1..MaxCoord, m \in 0..1, t1 \in 0..1}

\* the keys forward asserts of a communication bundle (lines 862-867)
CommDict ==
    [send_list |-> 0, send_proc |-> 0, recv_proc |-> 0,
     send_num |-> 0, recv_num |-> 0, communicator |-> 0]

\* parallel inputs: a communication bundle and no mapping
ParallelInputs ==
    {[nlist |-> [i \in 0..1 |-> IF i = 0 THEN r0 ELSE Row(0, -1)],
      extended_coord |-> [j \in 0..2 |-> IF j = 0 THEN 0 ELSE IF j = 1 THEN 1 ELSE Box],
      extended_atype |-> [j \in 0..2 |-> IF j = 1 THEN t1 ELSE 0],
      mapping |-> None,
      comm_dict |-> CommDict] :
        r0 \in {Row(1, -1), Row(1, 2)}, t1 \in 0..1}

\* a non-parallel call without mapping
UnmappedInputs ==
    {[nlist |-> [i \in 0..1 |-> Row(1 - i, -1)],
      extended_coord |-> [j \in 0..2 |-> IF j = 2 THEN Box ELSE j],
      extended_atype |-> [j \in 0..2 |-> 0],
      mapping |-> None,
      comm_dict |-> None]}

Inputs == SerialInputs \cup ParallelInputs \cup UnmappedInputs

\* arguments of a direct environment pass: two centers, three atoms, rows with
\* and without padding, statistics with zero and non-zero mean entries
EnvInputs ==
    {[nlist |-> [i \in 0..1 |-> IF i = 0 THEN r0 ELSE r1],
      extended_coord |-> [j \in 0..2 |-> IF j = 0 THEN 0 ELSE IF j = 1 THEN x1 ELSE x2],
      atype |-> [i \in 0..1 |-> IF i = 0 THEN 0 ELSE t1],
      mean |-> [t \in Types |-> [s \in 0..1 |->
                  [r |-> IF t = 0 THEN mr ELSE RZero, x |-> IF t = 0 THEN RZero ELSE mx]]],
      stddev |-> [t \in Types |-> [s \in 0..1 |-> [r |-> sd, x |-> sd]]],
      rcut |-> 3, rcut_smth |-> 1, protection |-> 0] :
        r0 \in {Row(1, -1)},
        r1 \in {Row(0, 2), Row(0, -1)},
        x1 \in 1..MaxCoord, x2 \in {-1, Box}, t1 \in 0..1,
        mr \in {RZero, <<1, 2>>}, mx \in {RZero, <<-1, 4>>}, sd \in {ROne, <<3, 10>>}}

\* constructor arguments of the statistics specifications: every combination
\* of a fixed or free mean with a fixed or free stddev
CtorArgsStats ==
    {[CtorDefaults EXCEPT !.set_davg_zero = z, !.fix_stat_std = f, !.a_sel = 1] :
        z \in BOOLEAN, f \in {RZero, <<3, 10>>}}

\* a [ntypes, nnei, comps] array with the same radial and angular value in
\* every row
StatArray(vr, vx) == [t \in Types |-> [s \in 0..1 |-> [r |-> vr, x |-> vx]]]

\* what the accumulator may yield: non-zero standard deviations, any mean
AccResults ==
    {[stats |-> <<"stats", m, sd>>, mean |-> StatArray(m, RZero), stddev |-> StatArray(sd, sd)] :
        m \in {RZero, <<1, 2>>}, sd \in {ROne, <<1, 2>>}}

\* the keys and values a caller may assign
ItemKeys == {"avg", "dstd", "other"}

ItemValues == {StatArray(<<1, 4>>, RZero), StatArray(RZero, RZero)}

\* the forward arguments of the statistics specifications
StatsInputs ==
    {in \in SerialInputs :
        /\ in.nlist[0] = Row(1, -1) /\ in.extended_coord[1] = 1
        /\ in.extended_atype[1] = 1 /\ in.mapping[2] = 0}

\* the coordinate increments a layer may return: absent, or one per local atom
CoordUpdates == {None} \cup {[i \in 0..1 |-> IF i = k THEN 1 ELSE 0] : k \in 0..1}

-----------------------------------------------------------------------------
(* Specifications                                                           *)

Init ==
    /\ border_built \in BOOLEAN
    /\ blk = NoBlock /\ ctor_args = None /\ ctor_err = ""
    /\ mean = None /\ stddev = None /\ stats = None
    /\ sampling = None /\ got = None
    /\ pc = "idle" /\ inp = None /\ caller = None /\ loc = None
    /\ calls = <<>> /\ trace = <<>> /\ result = None /\ err = ""
    /\ env_in = None /\ env_out = None

Next ==
    \/ \E a \in CtorArgs : Construct(a)
    \/ \E in \in Inputs : ForwardBegin(in)
    \/ GatherNodeExt
    \/ BorderExchange
    \/ \E cu \in CoordUpdates : LayerCall(cu)
    \/ CoordUpdate
    \/ Assemble
    \/ ForwardReturn

Spec == Init /\ [][Next]_vars

\* construction alone, over the wide argument set
NextCtor == \E a \in CtorArgsWide : Construct(a)

SpecCtor == Init /\ [][NextCtor]_vars

\* construction, statistics passes and forward calls, without item assignment
NextStatsPass ==
    \/ \E a \in CtorArgsStats : Construct(a)
    \/ \E acc \in AccResults : ComputeInputStats(acc)
    \/ GetStats
    \/ \E in \in StatsInputs : ForwardBegin(in)
    \/ GatherNodeExt
    \/ \E cu \in CoordUpdates : LayerCall(cu)
    \/ CoordUpdate
    \/ Assemble
    \/ ForwardReturn

SpecStatsPass == Init /\ [][NextStatsPass]_vars

\* the same with item assignment
NextStats ==
    \/ NextStatsPass
    \/ \E key \in ItemKeys : \E value \in ItemValues : SetItem(key, value)

SpecStats == Init /\ [][NextStats]_vars

\* the environment pass alone, over statistics of any value
NextEnv == \E a \in EnvInputs : ProdEnvMat(a)

SpecEnv == Init /\ [][NextEnv]_vars

-----------------------------------------------------------------------------
(* Construction-time checks                                                 *)

\* C1: a constructor call with use_dynamic_sel = True and smooth_edge_update =
\* False raises and leaves no block, and no block has use_dynamic_sel true
\* with smooth_edge_update false.
C1_DynSelNeedsSmooth ==
    /\ (ctor_args # None /\ ctor_args.use_dynamic_sel /\ ~ctor_args.smooth_edge_update)
          => (blk = NoBlock /\ ctor_err # "")
    /\ blk # NoBlock => ~(blk.use_dynamic_sel /\ ~blk.smooth_edge_update)

C1_Witness ==
    /\ ctor_args # None
    /\ ctor_args.use_dynamic_sel /\ ~ctor_args.smooth_edge_update
    /\ ctor_args.sel_reduce_factor > 0
    /\ blk = NoBlock /\ ctor_err = "NotImplementedError"

\* C2: a constructor call with sel_reduce_factor <= 0 raises whatever the
\* other options are, and every block has sel_reduce_factor > 0.
C2_SelReducePositive ==
    /\ (ctor_args # None /\ ctor_args.sel_reduce_factor <= 0)
          => (blk = NoBlock /\ ctor_err # "")
    /\ blk # NoBlock => blk.sel_reduce_factor > 0

C2_Witness ==
    /\ ctor_args # None
    /\ ctor_args.sel_reduce_factor = 0 /\ ~ctor_args.use_dynamic_sel
    /\ blk = NoBlock /\ ctor_err = "ValueError"

InvalidOrdering(a) ==
    \/ a.a_rcut > a.e_rcut
    \/ a.a_sel > a.e_sel
    \/ a.e_rcut_smth > a.e_rcut
    \/ a.a_rcut_smth > a.a_rcut

\* C3: a constructor call with an invalid cutoff ordering (a_rcut > e_rcut,
\* a_sel > e_sel, or a smoothing radius above its cutoff) raises and yields no
\* block.
C3_InvalidOrderingRejected ==
    (ctor_args # None /\ InvalidOrdering(ctor_args)) => (blk = NoBlock /\ ctor_err # "")

-----------------------------------------------------------------------------
(* The layer loop                                                           *)

ParallelCall == inp # None /\ inp.comm_dict # None

\* C4: a forward call in parallel mode on a block with update_coord and at
\* least one layer never returns outputs, whatever the layers return.
C4_ParallelUpdateNeverReturns ==
    ~(pc = "done" /\ ParallelCall /\ blk.update_coord /\ blk.nlayers >= 1)

\* C5 as stated: without the border primitive a parallel forward call invokes
\* no layer and returns no outputs, and ends in the primitive's error; a
\* non-parallel call never ends in that error.
C5_NoBorderNoOutputs ==
    /\ (ParallelCall /\ ~border_built) =>
          /\ calls = <<>>
          /\ pc \notin {"call", "update", "done"}
          /\ pc = "error" => err = BorderOpError
    /\ (inp # None /\ inp.comm_dict = None) => err # BorderOpError

\* C5 amended: without the border primitive a parallel forward call invokes no
\* layer; on a block with at least one layer it returns no outputs and ends
\* in the primitive's error at the exchange of layer 0; on a block without
\* layers the primitive is never invoked and the call returns; a non-parallel
\* call never ends in that error.
C5_NoBorderNoLayer ==
    /\ (ParallelCall /\ ~border_built) =>
          /\ calls = <<>>
          /\ pc \notin {"call", "update"}
          /\ pc = "done" => blk.nlayers = 0
          /\ pc = "error" => (err = BorderOpError /\ loc.idx = 0 /\ blk.nlayers >= 1)
          /\ \A q \in 1..Len(trace) : trace[q][1] \notin {"border_op", "layer"}
    /\ (inp # None /\ inp.comm_dict = None) => err # BorderOpError

C5_Witness ==
    /\ ParallelCall /\ ~border_built
    /\ pc = "error" /\ err = BorderOpError
    /\ calls = <<>> /\ result = None

-----------------------------------------------------------------------------
(* Padded and excluded slots through the layers                             *)

Centers == DOMAIN inp.nlist

SlotsOf(i) == DOMAIN inp.nlist[i]

\* a slot of the caller's neighbor list whose type pair is excluded
ExcludedSlot(i, s) ==
    /\ inp.nlist[i][s] >= 0
    /\ emask(blk.exclude_types, inp.nlist, inp.extended_atype)[i][s] = 0

\* a slot that is padding after exclusion
PaddedSlot(i, s) == inp.nlist[i][s] = -1 \/ ExcludedSlot(i, s)

\* the weighted raw environment matrix behind the features layer call c was
\* handed: the builder on the neighbor list and coordinates of the last pass
RawOf(c) ==
    make_env_mat(c.env_nlist, c.extended_coord_new, blk.e_rcut, blk.e_rcut_smth,
                 blk.env_protection)

\* C6: in dense mode the sw handed to every layer and the sw returned are
\* exactly 0 at every padded or excluded slot, also after the environment
\* pass was re-run.
C6_PaddedWeightZero ==
    (inp # None /\ loc # None /\ ~blk.use_dynamic_sel) =>
        /\ \A k \in 1..Len(calls) : \A i \in Centers : \A s \in SlotsOf(i) :
              PaddedSlot(i, s) => calls[k].sw[i][s] = RZero
        /\ pc = "done" =>
              \A i \in Centers : \A s \in SlotsOf(i) :
                  PaddedSlot(i, s) => result.sw[i][s] = RZero

\* a returned call whose second layer followed a coordinate update, with a
\* padded slot whose re-derived weight was non-zero before it was masked
C6_Witness ==
    /\ pc = "done" /\ ~blk.use_dynamic_sel /\ blk.update_coord
    /\ Len(calls) = 2
    /\ \E q \in 1..Len(trace) : trace[q] = <<"coord_update", 0>>
    /\ \E i \in Centers : \E s \in SlotsOf(i) :
          /\ PaddedSlot(i, s)
          /\ RawOf(calls[2]).weight[i][s] # RZero
          /\ calls[2].sw[i][s] = RZero
          /\ result.sw[i][s] = RZero

\* C8: a slot whose type pair is excluded is padding at every layer: its mask
\* entry is false, its sw and its weighted raw feature are 0, it is no valid
\* angle neighbor, and in dynamic mode it is no compacted edge.
C8_ExcludedSlotInert ==
    (inp # None /\ loc # None) =>
        \A k \in 1..Len(calls) : \A i \in Centers : \A s \in SlotsOf(i) :
            ExcludedSlot(i, s) =>
                LET c == calls[k]
                    raw == RawOf(c).env_mat[i][s]
                IN /\ ~c.nlist_mask[i][s]
                   /\ raw.r = RZero /\ raw.x = RZero
                   /\ ~blk.use_dynamic_sel => c.sw[i][s] = RZero
                   /\ (~blk.use_dynamic_sel /\ s < blk.a_sel) => ~c.a_nlist_mask[i][s]
                   /\ (blk.use_dynamic_sel /\ s < blk.a_sel) =>
                         \A u \in DOMAIN c.a_nlist_mask[i][s] : ~c.a_nlist_mask[i][s][u]
                   /\ blk.use_dynamic_sel =>
                         /\ Len(c.edge_index) = Len(TrueSlots(c.nlist_mask))
                         /\ Len(c.sw) = Len(c.edge_index)

\* the raw matrix of the direct environment pass, before normalization
EnvRaw ==
    make_env_mat(env_in.nlist, env_in.extended_coord, env_in.rcut, env_in.rcut_smth,
                 env_in.protection)

EnvPadded(i, s) == env_in.nlist[i][s] < 0

\* the statistics entry that normalizes slot s of center i
EnvAvg(i, s) == env_in.mean[env_in.atype[i]][s]

EnvZero == [r |-> RZero, x |-> RZero]

\* C7 as stated: at a padded slot both the raw and the normalized environment
\* feature are exactly zero, whatever the mean and stddev.
C7_PaddedFeatureZero ==
    env_in # None =>
        \A i \in DOMAIN env_in.nlist : \A s \in DOMAIN env_in.nlist[i] :
            EnvPadded(i, s) =>
                /\ EnvRaw.env_mat[i][s] = EnvZero
                /\ env_out.env_mat_se_a[i][s] = EnvZero

\* C7 amended: at a padded slot the raw environment feature, the weight and
\* the displacement are exactly zero; the normalized feature is -mean/stddev
\* of the center's type, zero in a component exactly when the mean is.
C7_PaddedRawZero ==
    env_in # None =>
        \A i \in DOMAIN env_in.nlist : \A s \in DOMAIN env_in.nlist[i] :
            EnvPadded(i, s) =>
                LET n == env_out.env_mat_se_a[i][s]
                    sd == env_in.stddev[env_in.atype[i]][s]
                IN /\ EnvRaw.env_mat[i][s] = EnvZero
                   /\ env_out.switch[i][s] = RZero
                   /\ env_out.diff[i][s] = 0
                   /\ n.r = RDiv(RSub(RZero, EnvAvg(i, s).r), sd.r)
                   /\ n.x = RDiv(RSub(RZero, EnvAvg(i, s).x), sd.x)
                   /\ (n.r = RZero) <=> (EnvAvg(i, s).r = RZero)
                   /\ (n.x = RZero) <=> (EnvAvg(i, s).x = RZero)

\* a padded slot whose placeholder atom lies within the cutoff of its center
\* and whose normalized radial feature is not zero
C7_Witness ==
    /\ env_in # None
    /\ \E i \in DOMAIN env_in.nlist : \E s \in DOMAIN env_in.nlist[i] :
          /\ EnvPadded(i, s)
          /\ Abs(env_in.extended_coord[2] + env_in.rcut - env_in.extended_coord[i]) + 1
                < env_in.rcut
          /\ EnvAvg(i, s).r # RZero
          /\ env_out.env_mat_se_a[i][s].r # RZero
          /\ EnvRaw.env_mat[i][s] = EnvZero

\* a constant shift of every coordinate
Shifts == {-2, -1, 1, 3}

Shifted(coord, d) == [j \in DOMAIN coord |-> coord[j] + d]

\* the builder on the shifted coordinates of the direct environment pass
EnvRawShifted(d) ==
    make_env_mat(env_in.nlist, Shifted(env_in.extended_coord, d), env_in.rcut,
                 env_in.rcut_smth, env_in.protection)

\* C11: shifting every coordinate by the same constant leaves the
\* displacement, the weight and the raw feature of every slot unchanged, the
\* padded slots included, and so the normalized feature as well.
C11_TranslationInvariant ==
    env_in # None =>
        \A d \in Shifts :
            /\ EnvRawShifted(d) = EnvRaw
            /\ prod_env_mat(Shifted(env_in.extended_coord, d), env_in.nlist,
                            env_in.atype, env_in.mean, env_in.stddev, env_in.rcut,
                            env_in.rcut_smth, env_in.protection) = env_out

\* a pass with a padded slot and a real slot of non-zero displacement, weight
\* and feature
C11_Witness ==
    /\ env_in # None
    /\ \E i \in DOMAIN env_in.nlist : \E s \in DOMAIN env_in.nlist[i] : EnvPadded(i, s)
    /\ \E i \in DOMAIN env_in.nlist : \E s \in DOMAIN env_in.nlist[i] :
          /\ ~EnvPadded(i, s)
          /\ env_out.diff[i][s] # 0
          /\ env_out.switch[i][s] \notin {RZero, ROne}
          /\ EnvRaw.env_mat[i][s].x # RZero
    /\ EnvRawShifted(3) = EnvRaw

Topology(c) ==
    <<c.nlist, c.nlist_mask, c.a_nlist, c.a_nlist_mask, c.edge_index, c.angle_index>>

\* C9: with coordinate update enabled, every layer is handed the neighbor
\* lists, masks and sparse indices derived before the first layer, and they
\* are still those after the last layer.
C9_TopologyFixed ==
    (inp # None /\ loc # None /\ blk.update_coord) =>
        LET T0 == Topology(ForwardLocals(blk, mean, stddev, inp))
        IN /\ \A k \in 1..Len(calls) : Topology(calls[k]) = T0
           /\ Topology(loc) = T0

\* the second layer of a call is handed coordinates and weights that the
\* update after the first layer changed
C9_Witness ==
    /\ inp # None /\ loc # None /\ blk.update_coord
    /\ Len(calls) = 2
    /\ calls[2].extended_coord_new # calls[1].extended_coord_new
    /\ calls[2].sw # calls[1].sw
    /\ Topology(calls[2]) = Topology(calls[1])

\* C10: after the last layer the coordinates are not advanced and the
\* environment pass is not re-run: the h2 and sw returned are those handed to
\* the last layer.
C10_NoUpdateAfterLast ==
    (pc = "done" /\ blk.nlayers >= 1) =>
        LET c == calls[Len(calls)]
        IN /\ result.h2 = c.h2
           /\ result.sw = c.sw
           /\ loc.extended_coord_new = c.extended_coord_new
           /\ \A q \in 1..Len(trace) :
                 trace[q][1] \in {"coord_update", "prod_env_mat"}
                     => trace[q][2] < blk.nlayers - 1

-----------------------------------------------------------------------------
(* Dynamic selection                                                        *)

\* the block with dynamic selection switched off, everything else equal
DenseTwin(b) == [b EXCEPT !.use_dynamic_sel = FALSE]

\* the normalized environment pass behind the features layer call c was handed
EnvOf(c) ==
    prod_env_mat(c.extended_coord_new, c.env_nlist,
                 [i \in Centers |-> inp.extended_atype[i]], mean, stddev,
                 blk.e_rcut, blk.e_rcut_smth, blk.env_protection)

\* the true positions of a [nloc][nnei] mask
TrueSet(mask) == {p \in (DOMAIN mask) \X (0..(blk.nnei - 1)) : mask[p[1]][p[2]]}

\* the true positions of a [nloc][a_sel][a_sel] mask
TrueSet3(mask3) ==
    {p \in (DOMAIN mask3) \X (0..(blk.a_sel - 1)) \X (0..(blk.a_sel - 1)) :
        mask3[p[1]][p[2]][p[3]]}

\* row-major order of positions
Before(p, q) ==
    \/ p[1] < q[1]
    \/ p[1] = q[1] /\ p[2] < q[2]
    \/ Len(p) = 3 /\ p[1] = q[1] /\ p[2] = q[2] /\ p[3] < q[3]

\* the place of position p among the positions of S in row-major order
Rank(S, p) == Cardinality({q \in S : Before(q, p)}) + 1

\* C12: in dynamic mode the compacted edge input, h2 and sw have one entry per
\* true entry of the neighbor mask, in row-major order of the dense layout,
\* and the compacted angle weight has one entry per true entry of the angle
\* pair mask, in row-major order.
C12_CompactionOrder ==
    (inp # None /\ loc # None /\ blk.use_dynamic_sel) =>
        LET D0 == ForwardLocals(DenseTwin(blk), mean, stddev, inp)
        IN /\ Len(loc.edge_input) = Cardinality(TrueSet(loc.nlist_mask))
           /\ \A p \in TrueSet(loc.nlist_mask) :
                 loc.edge_input[Rank(TrueSet(loc.nlist_mask), p)] = D0.edge_input[p[1]][p[2]]
           /\ \A k \in 1..Len(calls) :
                 LET c == calls[k]
                     E == TrueSet(c.nlist_mask)
                     A == TrueSet3(c.a_nlist_mask)
                 IN /\ Len(c.sw) = Cardinality(E)
                    /\ Len(c.h2) = Cardinality(E)
                    /\ \A p \in E :
                          /\ c.sw[Rank(E, p)] = EnvOf(c).switch[p[1]][p[2]]
                          /\ c.h2[Rank(E, p)] = EnvOf(c).env_mat_se_a[p[1]][p[2]].x
                    /\ Len(c.a_sw) = Cardinality(A)
                    /\ \A p \in A :
                          c.a_sw[Rank(A, p)] = RMul(D0.a_sw[p[1]][p[2]], D0.a_sw[p[1]][p[3]])

\* a layer call in dynamic mode whose mask has a false entry before a true
\* one, so that compaction moves entries, with several edges and angle pairs
C12_Witness ==
    /\ inp # None /\ loc # None /\ blk.use_dynamic_sel
    /\ Len(calls) >= 1
    /\ \E p \in TrueSet(calls[1].nlist_mask) :
          \E i \in Centers : \E s \in SlotsOf(i) :
              ~calls[1].nlist_mask[i][s] /\ Before(<<i, s>>, p)
    /\ Len(calls[1].sw) >= 2
    /\ \E q \in 1..Len(calls[1].sw) : calls[1].sw[q] \notin {RZero, ROne}
    /\ Len(calls[1].a_sw) >= 2

\* the dense masked weight layout at the geometry of layer call c
DenseSw(c) == masked_fill(EnvOf(c).switch, c.nlist_mask)

\* the (owner, weight) pairs of the compacted edges of layer call c
DynPairs(c) == {<<c.edge_index[q][1], c.sw[q]>> : q \in 1..Len(c.sw)}

\* the (owner, weight) pairs of the entries of S in the dense layout
DensePairs(c, S) == {<<p[1], DenseSw(c)[p[1]][p[2]]>> : p \in S}

NonZeroSlots(c) ==
    {p \in Centers \X (0..(blk.nnei - 1)) : DenseSw(c)[p[1]][p[2]] # RZero}

-----------------------------------------------------------------------------
(* Angle pairs                                                              *)

\* the valid angle neighbor slots of center i: within the first a_sel slots,
\* real, and closer than a_rcut
AngleSlots(i) ==
    {s \in 0..(blk.a_sel - 1) :
        ForwardLocals(DenseTwin(blk), mean, stddev, inp).a_nlist_mask[i][s]}

\* C14 as stated: a center with exactly one valid angle neighbor has no valid
\* angle pair, and a valid pair consists of two real neighbor slots.
C14_SingleNeighborNoPair ==
    (inp # None /\ loc # None /\ blk.use_dynamic_sel) =>
        \A i \in Centers :
            /\ Cardinality(AngleSlots(i)) = 1 =>
                  \A s, u \in 0..(blk.a_sel - 1) : ~loc.a_nlist_mask[i][s][u]
            /\ \A s, u \in 0..(blk.a_sel - 1) :
                  loc.a_nlist_mask[i][s][u] => (s \in AngleSlots(i) /\ u \in AngleSlots(i))

\* C14 amended: a pair (s, u) of slots of a center is valid exactly when both
\* slots are valid angle neighbors, s = u included; a center with exactly one
\* valid angle neighbor s has exactly one valid pair, (s, s), and the number
\* of compacted angle entries is the number of valid pairs.
C14_PairValidIffBothValid ==
    (inp # None /\ loc # None /\ blk.use_dynamic_sel) =>
        /\ \A i \in Centers : \A s, u \in 0..(blk.a_sel - 1) :
              loc.a_nlist_mask[i][s][u] <=> (s \in AngleSlots(i) /\ u \in AngleSlots(i))
        /\ \A i \in Centers :
              Cardinality(AngleSlots(i)) = 1 =>
                  {p \in TrueSet3(loc.a_nlist_mask) : p[1] = i}
                      = {<<i, s, s>> : s \in AngleSlots(i)}
        /\ Len(loc.a_sw) = Cardinality(TrueSet3(loc.a_nlist_mask))
        /\ Len(loc.angle_index) = Len(loc.a_sw)

\* two centers that are each other's only neighbor, with two angle slots: each
\* has one valid angle neighbor and the call has two compacted angle entries
C14_Witness ==
    /\ inp # None /\ loc # None /\ blk.use_dynamic_sel
    /\ blk.a_sel = 2
    /\ \A i \in Centers : Cardinality(AngleSlots(i)) = 1
    /\ \A i \in Centers : \A s \in SlotsOf(i) :
          inp.nlist[i][s] \in {-1, 1 - i}
    /\ Len(loc.a_sw) = 2

-----------------------------------------------------------------------------
(* Listed neighbors beyond the cutoff                                       *)

\* the distance between center i and the atom its slot s named in the
\* environment pass behind layer call c
SlotDistance(c, i, s) ==
    Abs(c.extended_coord_new[c.env_nlist[i][s]] - c.extended_coord_new[i])

-----------------------------------------------------------------------------
(* Normalization statistics                                                 *)

\* a step that changes the statistics of the block
StatsStep == mean' # mean \/ stddev' # stddev \/ stats' # stats

\* C16 as stated: mean, stddev and stats are changed only by a constructor
\* call or a compute_input_stats call.
C16_OnlyStatsPassWrites ==
    [][StatsStep =>
          \/ \E a \in CtorArgsStats : Construct(a)
          \/ \E acc \in AccResults : ComputeInputStats(acc)]_vars

\* C16 amended: mean, stddev and stats are changed only by a constructor call,
\* by a compute_input_stats call on a block whose statistics are not both
\* fixed, or by an item assignment; no step of a forward call changes them.
C16_StatsWriters ==
    [][/\ StatsStep =>
             \/ \E a \in CtorArgsStats : Construct(a)
             \/ /\ blk # NoBlock
                /\ ~(blk.set_stddev_constant /\ blk.set_davg_zero)
                /\ \E acc \in AccResults : ComputeInputStats(acc)
             \/ \E key \in ItemKeys : \E value \in ItemValues : SetItem(key, value)
       /\ (pc # "idle" \/ pc' # "idle") => ~StatsStep]_vars

\* a forward call that returned on a block whose mean and stddev a statistics
\* pass had changed
C16_Witness ==
    /\ pc = "done" /\ blk # NoBlock
    /\ stats # None
    /\ \E acc \in AccResults : stats = acc.stats /\ mean = acc.mean /\ stddev = acc.stddev
    /\ mean # InitMean(ctor_args)
    /\ stddev # InitStddev(ctor_args)

\* C17: no entry of stddev is exactly zero, after construction with any
\* fix_stat_std and after any statistics passes whose accumulator yields
\* non-zero standard deviations.
C17_StddevNonZero ==
    blk # NoBlock =>
        \A t \in DOMAIN stddev : \A s \in DOMAIN stddev[t] :
            ~RIsZero(stddev[t][s].r) /\ ~RIsZero(stddev[t][s].x)

\* a block constructed with fix_stat_std = 0, initialised to ones, whose
\* stddev a statistics pass has then replaced
C17_Witness ==
    /\ blk # NoBlock
    /\ RIsZero(ctor_args.fix_stat_std)
    /\ InitStddev(ctor_args) = StatArray(ROne, ROne)
    /\ stats # None /\ stddev = StatArray(<<1, 2>>, <<1, 2>>)

-----------------------------------------------------------------------------
(* The caller's tensors                                                     *)

-----------------------------------------------------------------------------
(* Coordinate update                                                        *)

SerialUpdate == inp # None /\ loc # None /\ inp.comm_dict = None /\ blk.update_coord

\* the geometry a layer was handed, and the current one
Geometries == {calls[k] : k \in 1..Len(calls)} \cup {loc}

\* C19: the displacement of every real slot (i, s), at every layer and after
\* every re-run, is the current position of the extended atom the caller's
\* neighbor list names for the slot minus the current position of center i.
C19_RerunUsesListedAtoms ==
    SerialUpdate =>
        \A c \in Geometries : \A i \in Centers : \A s \in SlotsOf(i) :
            (inp.nlist[i][s] >= 0 /\ ~ExcludedSlot(i, s)) =>
                c.diff[i][s] = c.extended_coord_new[inp.nlist[i][s]]
                                  - c.extended_coord_new[i]

RECURSIVE SumAt(_, _)
\* the sum of the increments of local atom m
SumAt(incs, m) == IF incs = <<>> THEN 0 ELSE incs[1][m] + SumAt(Tail(incs), m)

\* C20: the running coordinate of every extended atom j is its input
\* coordinate plus the sum of the applied increments of local atom
\* mapping[j]; the offset between an extended atom and its local image stays
\* that of the input; the caller's coordinates are not modified.
C20_RunningCoordinates ==
    SerialUpdate =>
        /\ \A j \in DOMAIN inp.extended_coord :
              /\ loc.extended_coord_new[j]
                    = inp.extended_coord[j] + SumAt(loc.increments, inp.mapping[j])
              /\ loc.extended_coord_new[j] - loc.extended_coord_new[inp.mapping[j]]
                    = inp.extended_coord[j] - inp.extended_coord[inp.mapping[j]]
        /\ Len(loc.increments) <= loc.idx
        /\ caller.extended_coord = inp.extended_coord

\* two layers have each moved the local atom that has a ghost image
C20_Witness ==
    /\ SerialUpdate /\ pc = "done"
    /\ Len(loc.increments) = 2
    /\ \E j \in DOMAIN inp.extended_coord :
          /\ inp.mapping[j] # j
          /\ SumAt(loc.increments, inp.mapping[j]) = 2
          /\ loc.extended_coord_new[j] = inp.extended_coord[j] + 2

-----------------------------------------------------------------------------
(* The border exchange of the parallel mode                                 *)

\* the positions of the trace at which collaborator tag ran for layer k
Positions(tag, k) == {q \in DOMAIN trace : trace[q] = <<tag, k>>}

\* the extended node embedding the exchange for layer k returns: the local
\* rows of the embedding layer k - 1 produced, the ghost rows from the peers
ExchangedEbd(k) ==
    [j \in DOMAIN inp.extended_coord |->
        IF j < NLoc(inp.nlist) THEN <<"loc", j, k>> ELSE <<"peer", j, k>>]

\* C21: in the parallel mode border_op runs exactly once per layer of a
\* forward call, layer k runs directly after the exchange for layer k and is
\* handed the node embedding that exchange returned; without comm_dict
\* border_op never runs.
C21_ExchangeBeforeEachLayer ==
    inp # None =>
        IF inp.comm_dict # None
        THEN /\ \A n \in DOMAIN calls :
                  LET k == calls[n].idx
                  IN /\ k = n - 1
                     /\ Cardinality(Positions("border_op", k)) = 1
                     /\ Cardinality(Positions("layer", k)) = 1
                     /\ \A q \in Positions("layer", k) : (q - 1) \in Positions("border_op", k)
                     /\ calls[n].node_ebd_ext = ExchangedEbd(k)
             /\ \A q \in DOMAIN trace :
                  trace[q][1] = "border_op" =>
                      /\ trace[q][2] \in 0..(blk.nlayers - 1)
                      /\ Cardinality(Positions("border_op", trace[q][2])) = 1
             /\ pc = "done" =>
                  \A k \in 0..(blk.nlayers - 1) :
                      Cardinality(Positions("border_op", k)) = 1
        ELSE \A q \in DOMAIN trace : trace[q][1] # "border_op"

C21_Witness ==
    /\ pc = "done"
    /\ inp.comm_dict # None
    /\ blk.nlayers = MaxLayers
    /\ Len(calls) = MaxLayers
    /\ calls[MaxLayers].node_ebd_ext = ExchangedEbd(MaxLayers - 1)
    /\ Positions("border_op", MaxLayers - 1) # {}

-----------------------------------------------------------------------------
(* Coordinate update in the parallel mode                                   *)

UpdateUnsupported ==
    "NotImplementedError: update_coord in parallel_mode is not supported yet"

\* C22: when update_coord is on and comm_dict is given, the "not supported
\* yet" error is raised before border_op and before any layer has run in that
\* forward call.
C22_UnsupportedFailsFast ==
    (pc = "error" /\ err = UpdateUnsupported) =>
        /\ calls = <<>>
        /\ \A q \in DOMAIN trace : trace[q][1] \notin {"border_op", "layer"}

-----------------------------------------------------------------------------
(* The order of the layer loop                                              *)

\* the number of environment passes re-run after a layer, in a trace
ReRuns(tr) == Cardinality({q \in DOMAIN tr : tr[q][1] = "prod_env_mat" /\ tr[q][2] >= 0})

\* the layers invoked so far are 0, 1, ... in order, each once, and layer k is
\* handed the embeddings layer k - 1 returned; a finished call has invoked all
\* of them and assembled the frame once, last
LayersInOrder ==
    inp # None =>
        /\ Len(calls) <= blk.nlayers
        /\ \A n \in DOMAIN calls :
              /\ calls[n].idx = n - 1
              /\ calls[n].edge_ebd = n - 1
              /\ calls[n].angle_ebd = n - 1
              /\ \A j \in DOMAIN calls[n].node_ebd_ext : calls[n].node_ebd_ext[j][3] = n - 1
              /\ Cardinality(Positions("layer", n - 1)) = 1
              /\ \A q \in Positions("layer", n - 1) :
                    Cardinality({p \in 1..(q - 1) : trace[p][1] = "layer"}) = n - 1
        /\ Cardinality({q \in DOMAIN trace : trace[q][1] = "layer"}) = Len(calls)
        /\ Cardinality({q \in DOMAIN trace : trace[q][1] = "cal_hg"})
              = IF pc = "done" THEN 1 ELSE 0
        /\ pc = "done" =>
              /\ Len(calls) = blk.nlayers
              /\ trace[Len(trace)][1] = "cal_hg"
              /\ result.node_ebd = blk.nlayers
              /\ result.edge_ebd = blk.nlayers

\* a step of the loop re-runs the environment pass once if it follows a layer
\* that returned an increment on a block with update_coord, and not otherwise
ReRunAfterIncrement ==
    (pc \in {"loop", "call", "update"} /\ pc' \in {"loop", "call", "update", "done"}) =>
        IF pc = "update" /\ blk.update_coord /\ loc.coord_update # None
        THEN /\ ReRuns(trace') = ReRuns(trace) + 1
             /\ trace'[Len(trace')] = <<"prod_env_mat", loc.idx>>
        ELSE ReRuns(trace') = ReRuns(trace)

\* C23: a forward call that raises no error invokes the layers in the order
\* 0, 1, ..., nlayers - 1, each once, layer k + 1 receiving the embeddings
\* layer k returned; it then assembles the frame once and ends; the
\* environment pass is re-run once after each layer that returned an increment
\* on a block with update_coord, and never otherwise.
C23_LayerLoopOrder == [](LayersInOrder) /\ [][ReRunAfterIncrement]_vars

C23_Witness ==
    /\ pc = "done"
    /\ blk.nlayers = MaxLayers
    /\ blk.update_coord
    /\ Len(calls) = MaxLayers
    /\ ReRuns(trace) = 1
    /\ Positions("prod_env_mat", 0) # {}
    /\ Positions("prod_env_mat", MaxLayers - 1) = {}

-----------------------------------------------------------------------------
(* The angle neighbors                                                      *)

\* the distance of slot s of center i in the coordinates forward was given
InitialDistance(i, s) ==
    Abs(inp.extended_coord[inp.nlist[i][s]] - inp.extended_coord[i])

\* slot s of center i is a valid edge neighbor: listed and not excluded
EdgeSlot(i, s) == s \in SlotsOf(i) /\ ~PaddedSlot(i, s)

\* C24: a valid angle-neighbor slot is one of the first a_sel slots, is a valid
\* edge-neighbor slot and has an initial distance strictly below a_rcut; a
\* neighbor within e_rcut but at or beyond a_rcut is never a valid angle
\* neighbor. The mask handed to the layers is that mask.
C24_AngleWithinEdge ==
    (inp # None /\ loc # None) =>
        /\ \A i \in Centers : \A s \in AngleSlots(i) :
              /\ s < blk.a_sel
              /\ EdgeSlot(i, s)
              /\ loc.nlist_mask[i][s]
              /\ InitialDistance(i, s) < blk.a_rcut
        /\ \A i \in Centers : \A s \in SlotsOf(i) :
              (/\ EdgeSlot(i, s)
               /\ InitialDistance(i, s) < blk.e_rcut
               /\ InitialDistance(i, s) >= blk.a_rcut) => s \notin AngleSlots(i)
        /\ ~blk.use_dynamic_sel =>
              \A n \in DOMAIN calls : \A i \in Centers :
                  \A s \in DOMAIN calls[n].a_nlist_mask[i] :
                      calls[n].a_nlist_mask[i][s] <=> s \in AngleSlots(i)

C24_Witness ==
    /\ inp # None /\ loc # None
    /\ calls # <<>>
    /\ blk.a_sel = 2
    /\ \E i \in Centers : \E s \in SlotsOf(i) :
          /\ s < blk.a_sel
          /\ EdgeSlot(i, s)
          /\ InitialDistance(i, s) = blk.a_rcut
          /\ InitialDistance(i, s) < blk.e_rcut
          /\ ~calls[1].a_nlist_mask[i][s]
    /\ \E i \in Centers : AngleSlots(i) # {}

-----------------------------------------------------------------------------
(* The angle weights under coordinate update                                *)

\* a_sw as the angle pass derives it from the coordinates of layer call c, on
\* the angle neighbors fixed before the loop
AngleWeights(c) ==
    LET a_nl == [i \in Centers |-> [s \in 0..(blk.a_sel - 1) |->
                    IF s \in AngleSlots(i) THEN inp.nlist[i][s] ELSE -1]]
        atype == [i \in Centers |-> inp.extended_atype[i]]
        A == prod_env_mat(c.extended_coord_new, a_nl, atype,
                          StatPrefix(mean, blk.a_sel), StatPrefix(stddev, blk.a_sel),
                          blk.a_rcut, blk.a_rcut_smth, blk.env_protection)
    IN masked_fill(A.switch, Map2(a_nl, LAMBDA i, s, j : j # -1))

\* C25: with coordinate update the a_sw handed to each layer is derived from
\* the coordinates as updated after the layer before it.
C25_AngleWeightsRecomputed ==
    (SerialUpdate /\ ~blk.use_dynamic_sel) =>
        \A n \in DOMAIN calls : calls[n].a_sw = AngleWeights(calls[n])

-----------------------------------------------------------------------------
(* The virtual atom of the environment pass                                 *)

\* the distance from center i of a direct environment pass to the virtual atom
PadDistance(i) ==
    Abs(PadAtom(env_in.extended_coord, env_in.rcut) - env_in.extended_coord[i])

\* C26: for every coordinate set and every center, the virtual atom standing
\* in for sentinel entries lies farther than rcut from the center, so the
\* weight of a padded slot is zero by its distance alone, before the mask is
\* applied.
C26_PadBeyondCutoff ==
    env_in # None =>
        \A i \in DOMAIN env_in.nlist :
            /\ PadDistance(i) > env_in.rcut
            /\ \A s \in DOMAIN env_in.nlist[i] :
                  env_in.nlist[i][s] < 0 =>
                      RIsZero(compute_smooth_weight(PadDistance(i) + 1,
                                                    env_in.rcut_smth, env_in.rcut))

-----------------------------------------------------------------------------
(* The displacement handed to the layers                                    *)

\* C27: at every layer the displacement diff handed to the layer is zero for
\* every padded or excluded slot, after the initial environment pass and after
\* every pass re-run on updated coordinates.
C27_DiffMasked ==
    (inp # None /\ loc # None) =>
        \A n \in DOMAIN calls : \A i \in Centers : \A s \in SlotsOf(i) :
            PaddedSlot(i, s) => calls[n].diff[i][s] = 0

-----------------------------------------------------------------------------
(* The fixed statistics, the sampler and get_stats                          *)

\* a step that is a compute_input_stats call
ComputeStep == \E acc \in AccResults : ComputeInputStats(acc)

\* every entry of a statistics array equals v
AllEntries(st, v) ==
    \A t \in DOMAIN st : \A s \in DOMAIN st[t] : st[t][s].r = v /\ st[t][s].x = v

\* the fixed statistics hold their constants
FixedStatsKept ==
    blk # NoBlock =>
        /\ blk.fix_stat_std # RZero => AllEntries(stddev, blk.fix_stat_std)
        /\ blk.set_davg_zero => AllEntries(mean, RZero)

\* what a compute_input_stats call may write
ComputeWrites ==
    ComputeStep =>
        /\ mean' # mean => ~blk.set_davg_zero
        /\ stddev' # stddev => blk.fix_stat_std = RZero
        /\ (blk.fix_stat_std # RZero /\ blk.set_davg_zero) =>
              UNCHANGED <<mean, stddev, stats>>

\* C28: after any sequence of compute_input_stats calls every stddev entry
\* equals fix_stat_std if that is non-zero and every mean entry is 0 if
\* set_davg_zero; a call overwrites mean only when set_davg_zero is false and
\* stddev only when fix_stat_std is 0, and with both constants in force it
\* changes neither mean, stddev nor stats.
C28_FixedStatsSurvive == [](FixedStatsKept) /\ [][ComputeWrites]_vars

C28_Witness ==
    /\ blk # NoBlock
    /\ sampling # None /\ sampling.loaded
    /\ blk.fix_stat_std # RZero /\ ~blk.set_davg_zero
    /\ stats # None
    /\ mean # InitMean(ctor_args)
    /\ AllEntries(stddev, blk.fix_stat_std)

\* C29: within one compute_input_stats call a lazy sampler is invoked at most
\* once: not at all when the call returns early or when path / hash is an
\* existing directory, in which case load_or_compute_stats is handed an empty
\* list; exactly once when no path is given or the location does not exist.
C29_SamplerAtMostOnce ==
    (blk # NoBlock /\ sampling # None /\ sampling.merged = "callable") =>
        /\ sampling.sampler_calls <= 1
        /\ (blk.set_stddev_constant /\ blk.set_davg_zero) =>
              sampling.sampler_calls = 0 /\ ~sampling.loaded
        /\ (~(blk.set_stddev_constant /\ blk.set_davg_zero) /\ sampling.path = "dir") =>
              /\ sampling.sampler_calls = 0
              /\ sampling.loaded
              /\ sampling.sampled = "empty"
        /\ (~(blk.set_stddev_constant /\ blk.set_davg_zero)
                /\ sampling.path \in {"none", "missing"}) =>
              /\ sampling.sampler_calls = 1
              /\ sampling.loaded
              /\ sampling.sampled = "returned"

C29_Witness ==
    /\ blk # NoBlock /\ sampling # None
    /\ sampling.merged = "callable"
    /\ sampling.path = "dir"
    /\ sampling.loaded
    /\ sampling.sampler_calls = 0
    /\ stats # None

\* the outcome of get_stats answers to the calls made before it
GetStatsOutcome ==
    (blk # NoBlock /\ got # None) =>
        /\ got.raised <=> got.seen # "stored"
        /\ (got.seen = "early") => (blk.set_stddev_constant /\ blk.set_davg_zero)
        /\ ~got.raised => got.ret # None /\ \E acc \in AccResults : got.ret = acc.stats

\* a get_stats call that raises changes nothing else; one that returns
\* returns the stored statistics
GetStatsStep ==
    (got' # got /\ got' # None) =>
        /\ got'.raised <=> stats = None
        /\ ~got'.raised => got'.ret = stats
        /\ UNCHANGED <<border_built, blk, ctor_args, ctor_err, mean, stddev, stats,
                       sampling, fwdVars, envVars>>

\* C30: get_stats raises RuntimeError exactly when no compute_input_stats call
\* has stored statistics yet, and changes no state when it raises: it raises
\* on a fresh block and after calls that returned early, and once a call has
\* stored statistics it returns them.
C30_GetStats == [](GetStatsOutcome) /\ [][GetStatsStep]_vars

C30_Witness ==
    /\ blk # NoBlock /\ got # None
    /\ got.raised
    /\ got.seen = "early"
    /\ blk.fix_stat_std # RZero /\ blk.set_davg_zero
    /\ stats = None

=============================================================================
